---- MODULE Spec2Model ----
(***************************************************************************)
(* Model of src/server.js: the bet lifecycle of the POD game backend.      *)
(*                                                                         *)
(* A BetInitialized event stores a Bet document and arms two in-memory     *)
(* timers; each timer runs fetchPriceAndUpdateBet, and the final one goes  *)
(* on to determineOutcome and settleBet.  Every `await` of the source is a *)
(* point where other callbacks of the single-threaded event loop may run,  *)
(* so every awaited call is a step of its own.                             *)
(***************************************************************************)
EXTENDS Integers, Sequences, FiniteSets, Bags

\* ------------------------------------------------------------------ bounds
\* The number of times the event listener's callback is invoked.
MaxEvents == 2

\* The documents the store can come to hold, one per saved event.
Docs == 1..MaxEvents

\* The bet ids the chain can have assigned by then.
BetIds == 1..MaxEvents

\* The prices the oracle quotes.
Prices == {100, 105}

\* ------------------------------------------------------------- JS values
\* A nullable JavaScript value: null is the empty tuple, a value v is <<v>>.
Null == << >>
Some(v) == <<v>>

\* JavaScript's ToNumber as the subtraction of determineOutcome applies it:
\* null becomes 0, a number is itself.
ToNumber(x) == IF x = Null THEN 0 ELSE x[1]

\* The two price keys handleNewBetEvent passes to fetchPriceAndUpdateBet.
PriceKeys == {"initialPrice", "finalPrice"}

\* The delays of the two setTimeout calls, in milliseconds.
DeltaInitial == 5 * 60 * 1000
DeltaFinal == 11 * 60 * 1000

\* The returnValues of the BetInitialized event the chain emitted for betId:
\* a redelivery of the event carries the same payload.
BetData(betId) ==
    [betId |-> betId, finder |-> "finder", tokenAddress |-> "token",
     betAmount |-> 10 * betId]

VARIABLES
    store,        \* the Bet collection of MongoDB, in insertion order
    proc,         \* the timer and call chain armed for each (document, priceKey)
    delivered,    \* number of invocations of the event listener's callback
    now,          \* the clock new Date() reads
    chainTxs,     \* the bag of transactions sendSignedTransaction has broadcast
    outcomeLog,   \* the bag of "Outcome for bet ... is ..." lines logged
    response      \* the last response GET /api/bet/:betId has sent

vars == <<store, proc, delivered, now, chainTxs, outcomeLog, response>>

\* ----------------------------------------------------------------- store
\* new Bet({...}) of handleNewBetEvent.
NewBet(betData, startTime) ==
    [betId |-> betData.betId,
     finder |-> betData.finder,
     tokenAddress |-> betData.tokenAddress,
     startTime |-> startTime,
     totalBetAmount |-> betData.betAmount,
     initialPrice |-> Null,
     finalPrice |-> Null,
     settled |-> FALSE,
     outcome |-> Null]

\* The positions of the documents matching the filter { betId }.
Matching(coll, betId) == {i \in 1..Len(coll) : coll[i].betId = betId}

Min(S) == CHOOSE m \in S : \A n \in S : m <= n

\* updateOne without `$set`: the update document replaces the stored one,
\* and the fields it does not name are lost.
UpdateOne_Replace(coll, betId, priceKey, price) ==
    IF Matching(coll, betId) = {}
    THEN coll
    ELSE LET i == Min(Matching(coll, betId))
         IN  [coll EXCEPT ![i] =
                 IF priceKey = "initialPrice"
                 THEN [@ EXCEPT !.initialPrice = price, !.finder = "",
                                !.totalBetAmount = 0]
                 ELSE [@ EXCEPT !.finalPrice = price, !.finder = "",
                                !.totalBetAmount = 0]]

\* updateMany with an empty filter: every document gets the price.
UpdateOne_All(coll, betId, priceKey, price) ==
    [i \in 1..Len(coll) |->
        IF priceKey = "initialPrice"
        THEN [coll[i] EXCEPT !.initialPrice = price]
        ELSE [coll[i] EXCEPT !.finalPrice = price]]

\* Bet.updateOne({ betId }, { $set: { [priceKey]: price } }): the first
\* matching document is updated, none when no document matches.
UpdateOne(coll, betId, priceKey, price) ==
    IF Matching(coll, betId) = {}
    THEN coll
    ELSE LET i == Min(Matching(coll, betId))
         IN  [coll EXCEPT ![i] =
                 IF priceKey = "initialPrice"
                 THEN [@ EXCEPT !.initialPrice = price]
                 ELSE [@ EXCEPT !.finalPrice = price]]

\* Bet.findOne({ betId }): the first matching document, or null.
FindOne(coll, betId) ==
    IF Matching(coll, betId) = {}
    THEN Null
    ELSE Some(coll[Min(Matching(coll, betId))])

\* --------------------------------------------------------- pure functions
\* determineOutcome with `>=` for `>`: an unchanged price counts as a Pump.
determineOutcome_GE(initialPrice, finalPrice) ==
    LET priceChange == ToNumber(finalPrice) - ToNumber(initialPrice)
        threshold == 0
    IN  IF priceChange >= threshold THEN Some(TRUE)
        ELSE IF priceChange < -threshold THEN Some(FALSE)
        ELSE Null

\* determineOutcome: true is Pump, false is Dump, null is No Change.
determineOutcome(initialPrice, finalPrice) ==
    LET priceChange == ToNumber(finalPrice) - ToNumber(initialPrice)
        threshold == 0
    IN  IF priceChange > threshold THEN Some(TRUE)
        ELSE IF priceChange < -threshold THEN Some(FALSE)
        ELSE Null

\* settleBet testing `!outcome` for `outcome === null`: false (Dump) is
\* falsy too and takes the no-change entry point.
EncodeSettle_Falsy(betId, outcome) ==
    IF outcome = Null \/ outcome = Some(FALSE)
    THEN [method |-> "settleBetNoChange", betId |-> betId, flag |-> Null]
    ELSE [method |-> "settleBet", betId |-> betId, flag |-> outcome]

\* The outcomes of axios.get on the price feed: the request fails, or it
\* answers with data that has no `pairs`, an empty list of pairs, or a list
\* whose first pair quotes priceUsd.
Responses ==
    {[failed |-> TRUE, hasPairs |-> FALSE, pairs |-> << >>],
     [failed |-> FALSE, hasPairs |-> FALSE, pairs |-> << >>],
     [failed |-> FALSE, hasPairs |-> TRUE, pairs |-> << >>]}
    \cup {[failed |-> FALSE, hasPairs |-> TRUE, pairs |-> <<[priceUsd |-> v]>>] :
              v \in Prices}

\* fetchPrice: the first pair's priceUsd, or null when there is none or
\* the request threw.
fetchPrice(resp) ==
    IF resp.failed THEN Null
    ELSE IF resp.hasPairs /\ Len(resp.pairs) >= 1
         THEN Some(resp.pairs[1].priceUsd)
         ELSE Null

\* The call settleBet encodes into txData.
EncodeSettle(betId, outcome) ==
    IF outcome = Null
    THEN [method |-> "settleBetNoChange", betId |-> betId, flag |-> Null]
    ELSE [method |-> "settleBet", betId |-> betId, flag |-> outcome]

\* ------------------------------------------------------------- processes
\* pc is the await the chain is suspended at; the other fields are the
\* arguments and locals of fetchPriceAndUpdateBet and settleBet.
NoProc ==
    [pc |-> "none", betId |-> 0, tokenAddress |-> "", price |-> Null,
     outcome |-> Null, txData |-> Null]

\* A call chain that returned: its locals are gone.
Returned(p) ==
    [NoProc EXCEPT !.pc = "done", !.betId = p.betId,
                   !.tokenAddress = p.tokenAddress]

\* setTimeout(() => fetchPriceAndUpdateBet(tokenAddress, betId, priceKey), ...)
Armed(betData) ==
    [NoProc EXCEPT !.pc = "timer", !.betId = betData.betId,
                   !.tokenAddress = betData.tokenAddress]

\* No request has been answered yet.
NoResponse == [status |-> 0, body |-> Null]

Init ==
    /\ store = << >>
    /\ proc = [e \in Docs, k \in PriceKeys |-> NoProc]
    /\ delivered = 0
    /\ now = 0
    /\ chainTxs = EmptyBag
    /\ outcomeLog = EmptyBag
    /\ response = NoResponse

\* The bet ids an event can carry: a redelivery carries the id of a stored
\* bet, a new bet the next id (bet ids are names: which one is next does
\* not matter).
EventBetIds ==
    {b \in BetIds : \A c \in 1..(b - 1) : Matching(store, c) # {}}

\* The listener's callback is invoked with an error: it is logged.
ListenerError ==
    /\ delivered < MaxEvents
    /\ delivered' = delivered + 1
    /\ now' = now + 1
    /\ UNCHANGED <<store, proc, chainTxs, outcomeLog, response>>

\* handleNewBetEvent waiting for the calls in flight before it takes the
\* event (the event path shared with the oracle and chain calls).
handleNewBetEvent_Blocking(betId, saveOk) ==
    /\ delivered < MaxEvents
    /\ \A e \in Docs, k \in PriceKeys : proc[e, k].pc \in {"none", "timer", "done", "lost"}
    /\ delivered' = delivered + 1
    /\ now' = now + 1
    /\ IF saveOk
       THEN /\ store' = Append(store, NewBet(BetData(betId), now'))
            /\ proc' = [proc EXCEPT
                   ![Len(store'), "initialPrice"] = Armed(BetData(betId)),
                   ![Len(store'), "finalPrice"] = Armed(BetData(betId))]
       ELSE UNCHANGED <<store, proc>>
    /\ UNCHANGED <<chainTxs, outcomeLog, response>>

\* handleNewBetEvent with the setTimeout calls after the try block: the
\* price checks are scheduled whether or not the save succeeded.
handleNewBetEvent_ArmAlways(betId, saveOk) ==
    /\ delivered < MaxEvents
    /\ delivered' = delivered + 1
    /\ now' = now + 1
    /\ store' = IF saveOk THEN Append(store, NewBet(BetData(betId), now')) ELSE store
    /\ proc' = [proc EXCEPT
           ![Len(store) + 1, "initialPrice"] = Armed(BetData(betId)),
           ![Len(store) + 1, "finalPrice"] = Armed(BetData(betId))]
    /\ UNCHANGED <<chainTxs, outcomeLog, response>>

\* handleNewBetEvent(betData): the document is saved and, when the save
\* succeeded, the two price checks are scheduled.
handleNewBetEvent(betId, saveOk) ==
    /\ delivered < MaxEvents
    /\ delivered' = delivered + 1
    /\ now' = now + 1
    /\ IF saveOk
       THEN /\ store' = Append(store, NewBet(BetData(betId), now'))
            /\ proc' = [proc EXCEPT
                   ![Len(store'), "initialPrice"] = Armed(BetData(betId)),
                   ![Len(store'), "finalPrice"] = Armed(BetData(betId))]
       ELSE UNCHANGED <<store, proc>>
    /\ UNCHANGED <<chainTxs, outcomeLog, response>>

\* Timers of equal delay expire in the order they were set, and the timer of
\* the initial price of an event expires before that of its final price.
TimerReady(e, k) ==
    /\ proc[e, k].pc = "timer"
    /\ \A d \in Docs : d < e => proc[d, k].pc # "timer"
    /\ (k = "finalPrice" /\ DeltaInitial < DeltaFinal)
           => proc[e, "initialPrice"].pc # "timer"

\* The timer expires: fetchPriceAndUpdateBet starts and awaits fetchPrice.
TimerFire(e, k) ==
    /\ TimerReady(e, k)
    /\ proc' = [proc EXCEPT ![e, k].pc = "fetch"]
    /\ UNCHANGED <<store, delivered, now, chainTxs, outcomeLog, response>>

\* fetchPriceAndUpdateBet without the `price !== null` test.
AfterFetch_NoNullTest(p, price) == [p EXCEPT !.pc = "update", !.price = price]

\* What fetchPriceAndUpdateBet does with the value fetchPrice returned.
AfterFetch(p, price) ==
    IF price # Null
    THEN [p EXCEPT !.pc = "update", !.price = price]
    ELSE Returned(p)

\* The request of fetchPrice completes and fetchPrice returns.
FetchPriceReturn(e, k, resp) ==
    /\ proc[e, k].pc = "fetch"
    /\ proc' = [proc EXCEPT ![e, k] = AfterFetch(@, fetchPrice(resp))]
    /\ UNCHANGED <<store, delivered, now, chainTxs, outcomeLog, response>>

\* fetchPriceAndUpdateBet comparing priceKey with a key that is never
\* passed: no update goes on to the outcome and the settlement.
AfterUpdate_WrongKey(p, k) ==
    IF k = "final" THEN [p EXCEPT !.pc = "find", !.price = Null]
    ELSE Returned(p)

\* What fetchPriceAndUpdateBet does after the update, by its priceKey.
AfterUpdate(p, k) ==
    IF k = "finalPrice" THEN [p EXCEPT !.pc = "find", !.price = Null]
    ELSE Returned(p)

\* Bet.updateOne completes.
UpdateOneReturn(e, k) ==
    /\ proc[e, k].pc = "update"
    /\ store' = UpdateOne(store, proc[e, k].betId, k, proc[e, k].price)
    /\ proc' = [proc EXCEPT ![e, k] = AfterUpdate(@, k)]
    /\ UNCHANGED <<delivered, now, chainTxs, outcomeLog, response>>

\* The start of settleBet(betId, outcome), up to its first await.
SettleStart(p, bet) ==
    LET outcome == determineOutcome(bet.initialPrice, bet.finalPrice)
    IN  [p EXCEPT !.pc = "estimateGas", !.outcome = outcome,
                  !.txData = Some(EncodeSettle(p.betId, outcome))]

\* Bet.findOne completes: the outcome is determined and logged, and
\* settleBet is called and runs up to estimateGas.
FindOneReturn(e) ==
    LET p == proc[e, "finalPrice"]
        bet == FindOne(store, p.betId)
    IN  /\ p.pc = "find"
        /\ bet # Null
        /\ proc' = [proc EXCEPT ![e, "finalPrice"] = SettleStart(p, bet[1])]
        /\ outcomeLog' = outcomeLog (+) SetToBag(
               {[betId |-> p.betId, outcome |-> proc'[e, "finalPrice"].outcome]})
        /\ UNCHANGED <<store, delivered, now, chainTxs, response>>

\* settleBet marking the bet settled in a `finally`: a failed submission
\* marks it too.
AfterSettleError_MarkSettled(p, coll) ==
    IF Matching(coll, p.betId) = {} THEN coll
    ELSE [coll EXCEPT ![Min(Matching(coll, p.betId))].settled = TRUE]

\* What the catch block of settleBet does to the store: it logs the error.
AfterSettleError(p, coll) == coll

\* An awaited call of settleBet's try block returns or throws; a throw is
\* caught and logged, and settleBet returns.
SettlePhase(e, phase, next, ok) ==
    /\ proc[e, "finalPrice"].pc = phase
    /\ proc' = [proc EXCEPT ![e, "finalPrice"] =
           IF ok THEN [@ EXCEPT !.pc = next] ELSE Returned(@)]
    /\ store' = IF ok THEN store ELSE AfterSettleError(proc[e, "finalPrice"], store)
    /\ UNCHANGED <<delivered, now, chainTxs, outcomeLog, response>>

EstimateGasReturn(e, ok) == SettlePhase(e, "estimateGas", "getGasPrice", ok)

GetGasPriceReturn(e, ok) == SettlePhase(e, "getGasPrice", "signTransaction", ok)

SignTransactionReturn(e, ok) ==
    SettlePhase(e, "signTransaction", "sendSignedTransaction", ok)

\* settleBet writing `settled: !bet.settled` on a receipt.
AfterReceipt_Toggle(p, coll) ==
    IF Matching(coll, p.betId) = {} THEN coll
    ELSE [coll EXCEPT ![Min(Matching(coll, p.betId))].settled = ~@]

\* What settleBet does with the receipt: it logs it and returns.
AfterReceipt(p, coll) == coll

\* sendSignedTransaction returns the receipt of the broadcast transaction,
\* or throws without one.
SendSignedTransactionReturn(e, ok) ==
    LET p == proc[e, "finalPrice"]
    IN  /\ p.pc = "sendSignedTransaction"
        /\ IF ok
           THEN /\ chainTxs' = chainTxs (+) SetToBag({p.txData[1]})
                /\ store' = AfterReceipt(p, store)
           ELSE /\ store' = AfterSettleError(p, store)
                /\ UNCHANGED chainTxs
        /\ proc' = [proc EXCEPT ![e, "finalPrice"] = Returned(@)]
        /\ UNCHANGED <<delivered, now, outcomeLog, response>>

\* What the start of the process arms for the chain of a previous run:
\* nothing, the timers and pending calls of the previous run are gone.
OnStartup(p) ==
    IF p.pc \in {"none", "done", "lost"} THEN p
    ELSE [NoProc EXCEPT !.pc = "lost", !.betId = p.betId,
                        !.tokenAddress = p.tokenAddress]

\* The process stops and is started again: the store and the chain keep
\* their state, the event loop's timers and pending calls do not.
Restart ==
    /\ proc' = [e \in Docs, k \in PriceKeys |-> OnStartup(proc[e, k])]
    /\ UNCHANGED <<store, delivered, now, chainTxs, outcomeLog, response>>

Next ==
    \/ ListenerError
    \/ \E betId \in EventBetIds, saveOk \in BOOLEAN : handleNewBetEvent(betId, saveOk)
    \/ \E e \in Docs, k \in PriceKeys : TimerFire(e, k)
    \/ \E e \in Docs, k \in PriceKeys, resp \in Responses :
           FetchPriceReturn(e, k, resp)
    \/ \E e \in Docs, k \in PriceKeys : UpdateOneReturn(e, k)
    \/ \E e \in Docs : FindOneReturn(e)
    \/ \E e \in Docs, ok \in BOOLEAN : EstimateGasReturn(e, ok)
    \/ \E e \in Docs, ok \in BOOLEAN : GetGasPriceReturn(e, ok)
    \/ \E e \in Docs, ok \in BOOLEAN : SignTransactionReturn(e, ok)
    \/ \E e \in Docs, ok \in BOOLEAN : SendSignedTransactionReturn(e, ok)
    \/ Restart

Spec == Init /\ [][Next]_vars

\* ----------------------------------------------------------- status query
\* The responseData of the GET route: the fields of the document.
ResponseData(bet) ==
    [betId |-> bet.betId,
     finder |-> bet.finder,
     startTime |-> bet.startTime,
     tokenAddress |-> bet.tokenAddress,
     totalBetAmount |-> bet.totalBetAmount,
     initialPrice |-> bet.initialPrice,
     finalPrice |-> bet.finalPrice,
     settled |-> bet.settled,
     outcome |-> bet.outcome]

\* What the GET route does to the store: it only reads it.
AfterGet(coll) == coll

\* GET /api/bet/:betId: 404 when no document matches, 500 when findOne
\* throws, the projected document otherwise.
GetBet(betId, findOk) ==
    LET bet == FindOne(store, betId)
    IN  /\ response' =
               IF ~findOk THEN [status |-> 500, body |-> Null]
               ELSE IF bet = Null THEN [status |-> 404, body |-> Null]
               ELSE [status |-> 200, body |-> Some(ResponseData(bet[1]))]
        /\ store' = AfterGet(store)
        /\ UNCHANGED <<proc, delivered, now, chainTxs, outcomeLog>>

\* The lifecycle together with the status queries of clients.
NextQuery ==
    \/ Next
    \/ \E betId \in BetIds, findOk \in BOOLEAN : GetBet(betId, findOk)

SpecQuery == Init /\ [][NextQuery]_vars

\* -------------------------------------------------------- without crashes
\* The lifecycle while the process keeps running.
NextRunning ==
    \/ ListenerError
    \/ \E betId \in EventBetIds, saveOk \in BOOLEAN : handleNewBetEvent(betId, saveOk)
    \/ \E e \in Docs, k \in PriceKeys : TimerFire(e, k)
    \/ \E e \in Docs, k \in PriceKeys, resp \in Responses :
           FetchPriceReturn(e, k, resp)
    \/ \E e \in Docs, k \in PriceKeys : UpdateOneReturn(e, k)
    \/ \E e \in Docs : FindOneReturn(e)
    \/ \E e \in Docs, ok \in BOOLEAN : EstimateGasReturn(e, ok)
    \/ \E e \in Docs, ok \in BOOLEAN : GetGasPriceReturn(e, ok)
    \/ \E e \in Docs, ok \in BOOLEAN : SignTransactionReturn(e, ok)
    \/ \E e \in Docs, ok \in BOOLEAN : SendSignedTransactionReturn(e, ok)

\* The event loop runs every expired timer and every continuation whose
\* awaited store call has completed; the store answers every call.
Fairness ==
    \A e \in Docs, k \in PriceKeys :
        /\ WF_vars(TimerFire(e, k))
        /\ WF_vars(UpdateOneReturn(e, k))
        /\ WF_vars(FindOneReturn(e))

FairSpec == Init /\ [][NextRunning]_vars /\ Fairness

\* ------------------------------------------------------------ vocabulary
\* The outcomes as the comments of determineOutcome name them.
Pump == Some(TRUE)
Dump == Some(FALSE)
NoChange == Null

\* The awaits of settleBet.
SettlePhases ==
    {"estimateGas", "getGasPrice", "signTransaction", "sendSignedTransaction"}

\* The number of settlement transactions broadcast for betId.
BroadcastCount(betId) ==
    BagCardinality([t \in {x \in BagToSet(chainTxs) : x.betId = betId} |-> chainTxs[t]])

\* The number of outcomes computed (and logged) for betId.
OutcomeCount(betId) ==
    BagCardinality([l \in {x \in BagToSet(outcomeLog) : x.betId = betId} |-> outcomeLog[l]])

\* ---------------------------------------------------------------- claims
\* C1: for every betId a settlement transaction (settleBet or
\* settleBetNoChange) is broadcast at most once, duplicate deliveries of the
\* BetInitialized event included.
C1_SettledAtMostOnce == \A b \in BetIds : BroadcastCount(b) <= 1

\* C2: the store holds at most one record per betId (creation is idempotent).
C2_OneRecordPerBetId == \A b \in BetIds : Cardinality(Matching(store, b)) <= 1

\* C3: after a restart the outstanding sample steps of a stored bet are
\* re-armed: no sample step whose price is still missing from the bet's
\* record is left without a timer or a running call.
C3_SampleStepsRearmed ==
    \A e \in Docs, k \in PriceKeys :
        (proc[e, k].pc = "lost" /\ FindOne(store, proc[e, k].betId) # Null)
            => FindOne(store, proc[e, k].betId)[1][k] # Null

\* C4: once the settlement transaction of a bet has been broadcast and
\* settleBet has handled the receipt, the bet's record has settled = true.
C4_SettledAfterBroadcast ==
    \A t \in BagToSet(chainTxs) :
        FindOne(store, t.betId) # Null /\ FindOne(store, t.betId)[1].settled = TRUE

\* C5: in every state, a stored bet's outcome is set if and only if both
\* its initialPrice and its finalPrice are set.
C5_OutcomeIffBothPrices ==
    \A i \in 1..Len(store) :
        (store[i].outcome # Null)
            <=> (store[i].initialPrice # Null /\ store[i].finalPrice # Null)

\* C6: in every state, a stored bet with a finalPrice has an initialPrice.
C6_FinalImpliesInitial ==
    \A i \in 1..Len(store) :
        store[i].finalPrice # Null => store[i].initialPrice # Null

\* C7: the outcome of a bet is computed at most once, and only once the
\* bet's finalPrice is set.
C7_OutcomeComputedOnce ==
    \A b \in BetIds :
        /\ OutcomeCount(b) <= 1
        /\ OutcomeCount(b) > 0 =>
               (FindOne(store, b) # Null /\ FindOne(store, b)[1].finalPrice # Null)

\* C8: the outcome determined from a bet's recorded prices is Pump when
\* final - initial > 0, Dump when it is < 0, and NoChange when it is 0.
C8_OutcomePolicy ==
    [][\A e \in Docs :
          (proc[e, "finalPrice"].pc = "find" /\ proc'[e, "finalPrice"].pc = "estimateGas")
          => LET bet == FindOne(store, proc[e, "finalPrice"].betId)[1]
                 outcome == proc'[e, "finalPrice"].outcome
             IN  (bet.initialPrice # Null /\ bet.finalPrice # Null)
                 => LET delta == bet.finalPrice[1] - bet.initialPrice[1]
                    IN  /\ delta > 0 => outcome = Pump
                        /\ delta < 0 => outcome = Dump
                        /\ delta = 0 => outcome = NoChange]_vars

\* C8 witness: an outcome of NoChange was determined for a bet whose two
\* recorded prices are equal.
C8_Witness ==
    \E e \in Docs :
        /\ proc[e, "finalPrice"].pc = "estimateGas"
        /\ proc[e, "finalPrice"].outcome = NoChange
        /\ store[e].initialPrice # Null
        /\ store[e].initialPrice = store[e].finalPrice

\* C9: the transaction settleBet builds calls settleBetNoChange(betId)
\* exactly when the outcome is null (NoChange), and otherwise
\* settleBet(betId, flag) with flag true for Pump and false for Dump; betId is
\* that of the bet whose final sample started the settlement; and what is
\* broadcast is such a transaction.
C9_EntryPoint ==
    /\ \A e \in Docs :
          proc[e, "finalPrice"].pc \in SettlePhases
          => LET p == proc[e, "finalPrice"]
                 tx == p.txData[1]
             IN  /\ tx.betId = store[e].betId
                 /\ (tx.method = "settleBetNoChange") <=> (p.outcome = NoChange)
                 /\ p.outcome = Pump => (tx.method = "settleBet" /\ tx.flag = Some(TRUE))
                 /\ p.outcome = Dump => (tx.method = "settleBet" /\ tx.flag = Some(FALSE))
    /\ \A t \in BagToSet(chainTxs) :
          \/ t.method = "settleBetNoChange" /\ t.flag = Null
          \/ t.method = "settleBet" /\ t.flag \in {Some(TRUE), Some(FALSE)}

\* C9 witness: a settlement for a Dump is about to be broadcast.
C9_Witness ==
    \E e \in Docs :
        /\ proc[e, "finalPrice"].pc = "sendSignedTransaction"
        /\ proc[e, "finalPrice"].outcome = Dump
        /\ proc[e, "finalPrice"].txData[1].method = "settleBet"

\* C10: when fetchPrice returns null for a sample step, the step ends
\* there: the store is unchanged (the price field stays as it was, null
\* when it was null), no outcome is computed and nothing is broadcast.
C10_NotAvailableDropsStep ==
    [][\A e \in Docs, k \in PriceKeys :
          (/\ proc[e, k].pc = "fetch"
           /\ proc'[e, k].pc \notin {"fetch", "lost"}
           /\ proc'[e, k].price = Null)
          => /\ proc'[e, k].pc = "done"
             /\ store' = store
             /\ outcomeLog' = outcomeLog
             /\ chainTxs' = chainTxs]_vars

\* C10 witness: a sample step has returned and the price it was to record
\* is still null in the bet's record.
C10_Witness ==
    \E e \in Docs, k \in PriceKeys :
        /\ proc[e, k].pc = "done"
        /\ Cardinality(Matching(store, store[e].betId)) = 1
        /\ store[e][k] = Null

\* C11: a settlement submission that fails (in estimateGas, getGasPrice,
\* signTransaction or sendSignedTransaction) leaves the store unchanged and
\* every other timer and call chain as it was (the process goes on), and a
\* transaction is broadcast only from the sendSignedTransaction phase.
C11_FailedSubmission ==
    [][/\ \A e \in Docs :
            (/\ proc[e, "finalPrice"].pc \in SettlePhases
             /\ proc'[e, "finalPrice"].pc = "done"
             /\ chainTxs' = chainTxs)
            => /\ store' = store
               /\ \A d \in Docs, k \in PriceKeys :
                      <<d, k>> # <<e, "finalPrice">> => proc'[d, k] = proc[d, k]
       /\ chainTxs' # chainTxs
            => \E e \in Docs :
                   /\ proc[e, "finalPrice"].pc = "sendSignedTransaction"
                   /\ proc'[e, "finalPrice"].pc = "done"]_vars

\* C11 witness: the only final sample of a bet recorded its price and its
\* settleBet has returned, and no transaction was broadcast for the bet:
\* the submission failed.
C11_Witness ==
    \E e \in Docs :
        /\ proc[e, "finalPrice"].pc = "done"
        /\ Matching(store, store[e].betId) = {e}
        /\ store[e].finalPrice # Null
        /\ BroadcastCount(store[e].betId) = 0

\* C12: for every betId at most one initial-sample step and at most one
\* final-sample step are ever scheduled, duplicate events included.
C12_NoDuplicateTimers ==
    \A b \in BetIds, k \in PriceKeys :
        Cardinality({e \in Docs : proc[e, k].pc # "none" /\ proc[e, k].betId = b}) <= 1

\* C13: a stored bet's settled flag never returns from true to false (so
\* it changes from false to true at most once), however many settlements
\* run for the bet.
C13_SettledMonotone ==
    [][\A i \in 1..Len(store) :
          store[i].settled => (i <= Len(store') /\ store'[i].settled)]_vars

\* C13 witness: a settlement of a bet was broadcast while another
\* settlement of the same bet is in flight.
C13_Witness ==
    \E e \in Docs, d \in Docs :
        /\ e # d
        /\ proc[e, "finalPrice"].betId = proc[d, "finalPrice"].betId
        /\ proc[e, "finalPrice"].pc \in SettlePhases
        /\ proc[d, "finalPrice"].pc = "done"
        /\ BroadcastCount(proc[d, "finalPrice"].betId) = 1

\* C14: no step (sample, outcome, settlement, status query, restart)
\* changes the betId, finder, tokenAddress, startTime or totalBetAmount of
\* a stored bet.
C14_WriteOnceFields ==
    [][\A i \in 1..Len(store) :
          /\ i <= Len(store')
          /\ store'[i].betId = store[i].betId
          /\ store'[i].finder = store[i].finder
          /\ store'[i].tokenAddress = store[i].tokenAddress
          /\ store'[i].startTime = store[i].startTime
          /\ store'[i].totalBetAmount = store[i].totalBetAmount]_vars

\* C14 witness: both prices of a bet were recorded and a status query has
\* returned the bet.
C14_Witness ==
    /\ response.status = 200
    /\ \E i \in 1..Len(store) :
           /\ store[i].initialPrice # Null
           /\ store[i].finalPrice # Null
           /\ response.body[1].betId = store[i].betId
           /\ response.body[1].finalPrice # Null

C16_SettleOnlyWithBothPrices ==
    /\ \A e \in Docs :
          proc[e, "finalPrice"].pc \in SettlePhases
          => /\ FindOne(store, proc[e, "finalPrice"].betId)[1].initialPrice # Null
             /\ FindOne(store, proc[e, "finalPrice"].betId)[1].finalPrice # Null
    /\ \A t \in BagToSet(chainTxs) :
          /\ FindOne(store, t.betId)[1].initialPrice # Null
          /\ FindOne(store, t.betId)[1].finalPrice # Null

\* C17: a step changes the record of a bet only when it is a step of a
\* timer or call chain of that same betId; creating a bet changes no
\* existing record.
C17_BetsIndependent ==
    [][\A i \in 1..Len(store) :
          /\ i <= Len(store')
          /\ store'[i] # store[i]
               => /\ \E e \in Docs, k \in PriceKeys : proc'[e, k] # proc[e, k]
                  /\ \A e \in Docs, k \in PriceKeys :
                         proc'[e, k] # proc[e, k] => proc[e, k].betId = store[i].betId]_vars

\* C17 witness: two bets are stored, both prices of one are recorded and
\* the other is untouched.
C17_Witness ==
    /\ Len(store) = 2
    /\ store[1].betId # store[2].betId
    /\ store[1].initialPrice # Null
    /\ store[1].finalPrice # Null
    /\ store[2].initialPrice = Null
    /\ store[2].finalPrice = Null

\* C18: while an oracle call or a settlement phase of a bet is pending
\* (and the listener has events left to deliver), a BetInitialized event of
\* another betId can be handled and its record saved.
C18_IntakeNotBlocked ==
    \A e \in Docs, k \in PriceKeys :
        (proc[e, k].pc \in ({"fetch"} \cup SettlePhases) /\ delivered < MaxEvents)
        => \E b \in EventBetIds :
               /\ b # proc[e, k].betId
               /\ ENABLED (handleNewBetEvent(b, TRUE) /\ Len(store') = Len(store) + 1)

\* C18 witness: a settlement phase of a bet is pending and the listener
\* can deliver another event.
C18_Witness ==
    \E e \in Docs :
        /\ proc[e, "finalPrice"].pc = "sendSignedTransaction"
        /\ delivered < MaxEvents

\* C19: a recorded initialPrice or finalPrice is never overwritten with a
\* different value.
C19_SamplesStable ==
    [][\A i \in 1..Len(store) :
          /\ store[i].initialPrice # Null
               => store'[i].initialPrice = store[i].initialPrice
          /\ store[i].finalPrice # Null
               => store'[i].finalPrice = store[i].finalPrice]_vars

\* C20: sample steps are scheduled only with a saved record: every
\* scheduled step belongs to a stored document of its betId, and there are
\* exactly two steps per stored document (none for a failed save).
C20_TimersOnlyAfterSave ==
    /\ \A e \in Docs, k \in PriceKeys :
          proc[e, k].pc # "none"
          => (e <= Len(store) /\ store[e].betId = proc[e, k].betId)
    /\ Cardinality({x \in Docs \X PriceKeys : proc[x[1], x[2]].pc # "none"})
           = 2 * Len(store)

\* C20 witness: a sample step has fired for a stored bet while an event of
\* the listener left no record (its save failed or it was an error).
C20_Witness ==
    \E e \in Docs, k \in PriceKeys :
        /\ proc[e, k].pc = "fetch"
        /\ FindOne(store, proc[e, k].betId) # Null
        /\ delivered > Len(store)

====
